---- MODULE Spec2Model ----
(***************************************************************************)
(* A model of LinkedBST (src/linkedbst.py): a link-based binary search     *)
(* tree with insertion, deletion, in-place replacement, traversals, a      *)
(* height-based balance heuristic and a rebuild-to-balance operation.      *)
(*                                                                         *)
(* A node is the tuple <<data, left, right>>; the absent link (Python's    *)
(* None) is the empty tuple.  A node is owned by exactly one link, so a    *)
(* pointer update on a node found by descent is the rebuilding of the      *)
(* path from the root to that node.  An optional return value is None or   *)
(* the one-element tuple <<value>>.                                        *)
(***************************************************************************)
EXTENDS Integers, Sequences, FiniteSets, TLC

VARIABLES root, size, op, ret

vars == <<root, size, op, ret>>

\* ------------------------------------------------------------- bounds
MaxVal == 3
MaxSize == 5
MaxSizeAll == 3

\* The items the callers pass to add, remove, replace and find.
Values == 1..MaxVal

\* ------------------------------------------------------------ the node
None == <<>>

BSTNode(data) == <<data, None, None>>

Data(node) == node[1]
Left(node) == node[2]
Right(node) == node[3]

SetData(node, data) == <<data, node[2], node[3]>>
SetLeft(node, left) == <<node[1], left, node[3]>>
SetRight(node, right) == <<node[1], node[2], right>>

\* ------------------------------------------------- the collection base
isEmpty(n) == n = 0

\* What a call hands back: a value (None or <<v>>), or the KeyError.
Return(value) == [raised |-> FALSE, value |-> value]
KeyError == [raised |-> TRUE, value |-> None]

\* ---------------------------------------------------------- traversals
RECURSIVE inorder_recurse(_)
inorder_recurse(node) ==
    IF node = None THEN <<>>
    ELSE inorder_recurse(Left(node)) \o <<Data(node)>> \o inorder_recurse(Right(node))

inorder(tree) == inorder_recurse(tree)

RECURSIVE height1(_)
\* Variant: a leaf counts as height 1 (nodes, not edges, on the longest path).
height1_nodes(pos) ==
    IF pos = None THEN 0
    ELSE LET hl == height1(Left(pos))
             hr == height1(Right(pos))
         IN 1 + (IF hl >= hr THEN hl ELSE hr)

height1(pos) ==
    IF pos = None \/ (Left(pos) = None /\ Right(pos) = None) THEN 0
    ELSE LET hl == height1(Left(pos))
             hr == height1(Right(pos))
         IN 1 + (IF hl >= hr THEN hl ELSE hr)

height(tree) == height1(tree)

RECURSIVE print_level(_, _)
print_level(node, level) ==
    IF node = None THEN <<>>
    ELSE IF level = 1 THEN <<Data(node)>>
    ELSE IF level > 1
         THEN print_level(Left(node), level - 1) \o print_level(Right(node), level - 1)
         ELSE <<>>

RECURSIVE levelorder_loop(_, _, _)
levelorder_loop(tree, i, height1_) ==
    IF i >= height1_ THEN <<>>
    ELSE print_level(tree, i + 1) \o levelorder_loop(tree, i + 1, height1_)

levelorder(tree) == levelorder_loop(tree, 0, height(tree))

\* -------------------------------------------------------------- search
RECURSIVE find_recurse(_, _)
\* Variant: the descent takes the wrong side.
find_recurse_flipped(node, item) ==
    IF node = None THEN None
    ELSE IF item = Data(node) THEN <<Data(node)>>
    ELSE IF item < Data(node) THEN find_recurse(Right(node), item)
    ELSE find_recurse(Left(node), item)

find_recurse(node, item) ==
    IF node = None THEN None
    ELSE IF item = Data(node) THEN <<Data(node)>>
    ELSE IF item < Data(node) THEN find_recurse(Left(node), item)
    ELSE find_recurse(Right(node), item)

find(tree, item) == find_recurse(tree, item)

\* Variant: the membership precheck of remove never fails.
contains_always(tree, item) == TRUE

contains(tree, item) == find(tree, item) # None

\* ----------------------------------------------------------------- add
RECURSIVE add_recurse(_, _)
\* Variant: the comparison that routes the new item is reversed.
add_recurse_flipped(node, item) ==
    IF item > Data(node)
    THEN IF Left(node) = None THEN SetLeft(node, BSTNode(item))
         ELSE SetLeft(node, add_recurse(Left(node), item))
    ELSE IF Right(node) = None THEN SetRight(node, BSTNode(item))
    ELSE SetRight(node, add_recurse(Right(node), item))

add_recurse(node, item) ==
    IF item < Data(node)
    THEN IF Left(node) = None THEN SetLeft(node, BSTNode(item))
         ELSE SetLeft(node, add_recurse(Left(node), item))
    ELSE IF Right(node) = None THEN SetRight(node, BSTNode(item))
    ELSE SetRight(node, add_recurse(Right(node), item))

\* Variant: the item count is not incremented.
add_no_count(t, item) ==
    [root |-> IF isEmpty(t.size) THEN BSTNode(item) ELSE add_recurse(t.root, item),
     size |-> t.size]

add_tree(t, item) ==
    [root |-> IF isEmpty(t.size) THEN BSTNode(item) ELSE add_recurse(t.root, item),
     size |-> t.size + 1]

\* -------------------------------------------------------------- remove
\* The walk of lift_max_in_left_subtree_to_top: the datum of the rightmost
\* node below current_node, and the subtree with that node detached (its
\* parent's right link adopts its left child).
RECURSIVE lift_max_data(_)
lift_max_data(current_node) ==
    IF Right(current_node) = None THEN Data(current_node)
    ELSE lift_max_data(Right(current_node))

RECURSIVE lift_max_detach(_)
lift_max_detach(current_node) ==
    IF Right(current_node) = None THEN Left(current_node)
    ELSE SetRight(current_node, lift_max_detach(Right(current_node)))

\* Variant: top takes the left child's datum instead of the maximum's.
lift_left_child_data(top) ==
    <<Data(Left(top)), lift_max_detach(Left(top)), Right(top)>>

lift_max_in_left_subtree_to_top(top) ==
    IF Right(Left(top)) = None
    THEN \* parent == top: top.left = current_node.left
         <<Data(Left(top)), Left(Left(top)), Right(top)>>
    ELSE \* parent.right = current_node.left
         <<lift_max_data(Left(top)), lift_max_detach(Left(top)), Right(top)>>

\* What the link that held current_node holds once the node is removed.
\* Variant: cases 2 and 3 tie the parent to the absent child.
remove_node_wrong_child(current_node) ==
    IF Left(current_node) # None /\ Right(current_node) # None
    THEN lift_max_in_left_subtree_to_top(current_node)
    ELSE IF Left(current_node) = None THEN Left(current_node)
    ELSE Right(current_node)

remove_node(current_node) ==
    IF Left(current_node) # None /\ Right(current_node) # None
    THEN lift_max_in_left_subtree_to_top(current_node)
    ELSE IF Left(current_node) = None THEN Right(current_node)
    ELSE Left(current_node)

\* The node the descent of remove stops at (None when it runs off the tree).
RECURSIVE remove_locate(_, _)
remove_locate(current_node, item) ==
    IF current_node = None THEN None
    ELSE IF Data(current_node) = item THEN current_node
    ELSE IF Data(current_node) > item THEN remove_locate(Left(current_node), item)
    ELSE remove_locate(Right(current_node), item)

\* pre_root.left after the located node is removed: the link of the tracked
\* parent on the tracked side is the one that changes.
RECURSIVE remove_relink(_, _)
remove_relink(current_node, item) ==
    IF current_node = None THEN None
    ELSE IF Data(current_node) = item THEN remove_node(current_node)
    ELSE IF Data(current_node) > item
         THEN SetLeft(current_node, remove_relink(Left(current_node), item))
         ELSE SetRight(current_node, remove_relink(Right(current_node), item))

remove_tree(t, item) ==
    IF ~contains(t.root, item)
    THEN [root |-> t.root, size |-> t.size, ret |-> KeyError]
    ELSE IF isEmpty(t.size)
    THEN [root |-> t.root, size |-> t.size, ret |-> Return(None)]
    ELSE IF remove_locate(t.root, item) = None
    THEN [root |-> t.root, size |-> t.size, ret |-> Return(None)]
    ELSE [root |-> IF isEmpty(t.size - 1) THEN None ELSE remove_relink(t.root, item),
          size |-> t.size - 1,
          ret |-> Return(<<Data(remove_locate(t.root, item))>>)]

\* ------------------------------------------------------------- replace
RECURSIVE replace_probe(_, _, _)
replace_probe(probe, item, new_item) ==
    IF probe = None THEN None
    ELSE IF Data(probe) = item THEN SetData(probe, new_item)
    ELSE IF Data(probe) > item
         THEN SetLeft(probe, replace_probe(Left(probe), item, new_item))
         ELSE SetRight(probe, replace_probe(Right(probe), item, new_item))

RECURSIVE replace_old_data(_, _)
replace_old_data(probe, item) ==
    IF probe = None THEN None
    ELSE IF Data(probe) = item THEN <<Data(probe)>>
    ELSE IF Data(probe) > item THEN replace_old_data(Left(probe), item)
    ELSE replace_old_data(Right(probe), item)

\* ----------------------------------------------------------- rebalance
RECURSIVE rb1(_)
\* Variant: the first element, not the middle one, roots each sub-range.
rb1_first(elems) ==
    IF Len(elems) = 0 THEN None
    ELSE <<elems[1], None, rb1(SubSeq(elems, 2, Len(elems)))>>

rb1(elems) ==
    IF Len(elems) = 0 THEN None
    ELSE LET mid == Len(elems) \div 2
         IN <<elems[mid + 1],
              rb1(SubSeq(elems, 1, mid)),
              rb1(SubSeq(elems, mid + 2, Len(elems)))>>

rebalance_tree(tree) == rb1(inorder(tree))

\* ---------------------------------------------------------- is_balanced
\* math.log is the natural logarithm.  For integers h >= 0 and m >= 1,
\*     h < 2 * log(m) - 1   iff   e^(h+1) < m^2   iff   floor(e^(h+1)) < m^2
\* (e^k is no integer for k >= 1).  ExpFloor[k] is floor(e^k).
ExpFloor == <<2, 7, 20, 54, 148, 403, 1096, 2980, 8103, 22026>>

less_than_2_log_minus_1(h, m) == ExpFloor[h + 1] < m * m

is_balanced(tree) ==
    LET number == Len(inorder(tree))
    IN less_than_2_log_minus_1(height(tree), 2 * (number + 1))

\* -------------------------------------------------------- construction
\* The collection the module itself builds: LinkedBST([5, 4, 6, 3, 8, 19]).
Scenario == <<5, 4, 6, 3, 8, 19>>

\* LinkedBST() and LinkedBST(sourceCollection) as the file calls them.
SourceCollections == {<<>>, Scenario}

RECURSIVE add_all(_, _, _)
add_all(t, sourceCollection, i) ==
    IF i > Len(sourceCollection) THEN t
    ELSE add_all(add_tree(t, sourceCollection[i]), sourceCollection, i + 1)

construct(sourceCollection) ==
    add_all([root |-> None, size |-> 0], sourceCollection, 1)

Constructed(sourceCollection) ==
    LET t == construct(sourceCollection)
    IN /\ root = t.root
       /\ size = t.size
       /\ op = [name |-> "init", src |-> sourceCollection]
       /\ ret = Return(None)

Init == \E sourceCollection \in SourceCollections : Constructed(sourceCollection)

InitEmpty == Constructed(<<>>)

\* ------------------------------------------------------------- actions
add(item) ==
    LET t == add_tree([root |-> root, size |-> size], item)
    IN /\ root' = t.root
       /\ size' = t.size
       /\ op' = [name |-> "add", item |-> item]
       /\ ret' = Return(None)

\* op records the branch the call took: how many children the located node
\* had, and whether its tracked parent was pre_root.
remove(item) ==
    LET t == remove_tree([root |-> root, size |-> size], item)
        located == remove_locate(root, item)
        children == IF located = None THEN 0
                    ELSE (IF Left(located) = None THEN 0 ELSE 1)
                         + (IF Right(located) = None THEN 0 ELSE 1)
    IN /\ root' = t.root
       /\ size' = t.size
       /\ op' = [name |-> "remove", item |-> item, children |-> children,
                 at_root |-> (root # None /\ Data(root) = item)]
       /\ ret' = t.ret

replace(item, new_item) ==
    /\ root' = replace_probe(root, item, new_item)
    /\ size' = size
    /\ op' = [name |-> "replace", item |-> item, new_item |-> new_item]
    /\ ret' = Return(replace_old_data(root, item))

rebalance ==
    /\ root' = rebalance_tree(root)
    /\ size' = size
    /\ op' = [name |-> "rebalance", height_before |-> height(root)]
    /\ ret' = Return(None)

clear ==
    /\ root' = None
    /\ size' = 0
    /\ op' = [name |-> "clear"]
    /\ ret' = Return(None)

\* add, remove and rebalance from the constructed trees.
Next ==
    \/ \E item \in Values : size < MaxSize /\ add(item)
    \/ \E item \in Values : remove(item)
    \/ rebalance

Spec == Init /\ [][Next]_vars

\* Every mutator.
NextAll ==
    \/ \E item \in Values : size < MaxSizeAll /\ add(item)
    \/ \E item \in Values : remove(item)
    \/ \E item \in Values, new_item \in Values : replace(item, new_item)
    \/ rebalance
    \/ clear

SpecAll == Init /\ [][NextAll]_vars

\* Insertions only, into the empty tree.
NextAdd == \E item \in Values : size < MaxSize /\ add(item)

SpecAdd == InitEmpty /\ [][NextAdd]_vars

\* =====================================================================
\* Properties
\* =====================================================================
Range(seq) == {seq[i] : i \in DOMAIN seq}

\* Every value a tree of the model can hold.
AllValues == Values \cup Range(Scenario)

StoredValues(tree) == Range(inorder(tree))

Count(seq, v) == Cardinality({i \in DOMAIN seq : seq[i] = v})

NonDecreasing(seq) == \A i \in 1..(Len(seq) - 1) : seq[i] <= seq[i + 1]

\* seq with its first occurrence of v deleted.
RemoveOne(seq, v) ==
    LET first == CHOOSE i \in DOMAIN seq :
                     seq[i] = v /\ \A j \in 1..(i - 1) : seq[j] # v
    IN SubSeq(seq, 1, first - 1) \o SubSeq(seq, first + 1, Len(seq))

RECURSIVE StrictBST(_)
StrictBST(node) ==
    \/ node = None
    \/ /\ \A v \in StoredValues(Left(node)) : v < Data(node)
       /\ \A v \in StoredValues(Right(node)) : v >= Data(node)
       /\ StrictBST(Left(node))
       /\ StrictBST(Right(node))

RECURSIVE WeakBST(_)
WeakBST(node) ==
    \/ node = None
    \/ /\ \A v \in StoredValues(Left(node)) : v <= Data(node)
       /\ \A v \in StoredValues(Right(node)) : v >= Data(node)
       /\ WeakBST(Left(node))
       /\ WeakBST(Right(node))

RECURSIVE FloorLog2(_)
FloorLog2(m) == IF m < 2 THEN 0 ELSE 1 + FloorLog2(m \div 2)

RECURSIVE Pow2(_)
Pow2(k) == IF k = 0 THEN 1 ELSE 2 * Pow2(k - 1)

\* The values at distance depth below node, left to right.
RECURSIVE AtDepth(_, _)
AtDepth(node, depth) ==
    IF node = None THEN <<>>
    ELSE IF depth = 0 THEN <<Data(node)>>
    ELSE AtDepth(Left(node), depth - 1) \o AtDepth(Right(node), depth - 1)

RECURSIVE BreadthFirstFrom(_, _)
BreadthFirstFrom(tree, depth) ==
    IF AtDepth(tree, depth) = <<>> THEN <<>>
    ELSE AtDepth(tree, depth) \o BreadthFirstFrom(tree, depth + 1)

BreadthFirst(tree) == BreadthFirstFrom(tree, 0)

\* C1 (as stated): after any add, remove and rebalance calls, at every node
\* the left subtree holds only strictly smaller values and the right
\* subtree only greater or equal ones.
C1_StrictBSTProperty == StrictBST(root)

\* C1 (amended): after any add, remove and rebalance calls, at every node
\* the left subtree holds only values less than or equal to the node's, and
\* the right subtree only values greater than or equal to it.
C1_WeakBSTProperty == WeakBST(root)

\* A two-child removal has lifted a value that still has an equal copy in
\* the left subtree.
C1_Witness ==
    /\ op.name = "remove"
    /\ op.children = 2
    /\ ret = Return(<<op.item>>)
    /\ WeakBST(root)
    /\ ~StrictBST(root)

\* C2: every add, in a run of adds from the empty tree, leaves inorder()
\* non-decreasing and holding what it held before plus the added item once
\* more (so it holds exactly the inserted values, each as often as inserted).
C2_InorderSortedMultiset ==
    [][op'.name = "add" =>
          /\ NonDecreasing(inorder(root'))
          /\ Len(inorder(root')) = Len(inorder(root)) + 1
          /\ \A v \in AllValues :
                 Count(inorder(root'), v)
                     = Count(inorder(root), v) + (IF v = op'.item THEN 1 ELSE 0)]_vars

\* A run of adds with a repeated value and a value on each side of the root.
C2_Witness ==
    /\ op.name = "add"
    /\ size >= 4
    /\ \E v \in Values : Count(inorder(root), v) >= 2
    /\ Left(root) # None
    /\ Right(root) # None
    /\ NonDecreasing(inorder(root))

\* C3: remove(item) of a present item returns item, lowers the count by one
\* and leaves inorder() as before with one occurrence of item deleted.
C3_RemovePresent ==
    [][(op'.name = "remove" /\ op'.item \in StoredValues(root)) =>
          /\ ret' = Return(<<op'.item>>)
          /\ size' = size - 1
          /\ inorder(root') = RemoveOne(inorder(root), op'.item)]_vars

\* The root, with two children, was removed and another copy of the item
\* remains.
C3_Witness ==
    /\ op.name = "remove"
    /\ op.children = 2
    /\ op.at_root
    /\ ret = Return(<<op.item>>)
    /\ op.item \in StoredValues(root)

\* C4: remove(item) of an absent item raises KeyError and leaves the root,
\* the structure, the count and inorder() as they were.
C4_RemoveAbsent ==
    [][(op'.name = "remove" /\ op'.item \notin StoredValues(root)) =>
          /\ ret' = KeyError
          /\ root' = root
          /\ size' = size
          /\ inorder(root') = inorder(root)]_vars

\* A remove of an absent item from a tree that holds other items.
C4_Witness ==
    /\ op.name = "remove"
    /\ ret = KeyError
    /\ size >= 2
    /\ op.item \notin StoredValues(root)

\* C5: rebalance() leaves inorder() as it was and the height at most
\* floor(log2(n + 1)) for the n items held.
C5_Rebalance ==
    [][op'.name = "rebalance" =>
          /\ inorder(root') = inorder(root)
          /\ height(root') <= FloorLog2(Len(inorder(root)) + 1)]_vars

\* A chain of at least four nodes was rebuilt.
C5_Witness ==
    /\ op.name = "rebalance"
    /\ size >= 4
    /\ op.height_before = size - 1
    /\ height(root) = 2

\* C6: levelorder() lists every stored value once, by increasing depth from
\* the root and left to right within a depth, the deepest level included.
C6_LevelorderBreadthFirst == levelorder(root) = BreadthFirst(root)

\* C7 (as stated): the tree built from 5, 4, 6, 3, 8, 19 has height 2.
C7_ScenarioHeightTwo ==
    (op.name = "init" /\ op.src = Scenario) => height(root) = 2

\* C7 (amended): the tree built from 5, 4, 6, 3, 8, 19 has height 3.
C7_ScenarioHeightThree ==
    (op.name = "init" /\ op.src = Scenario) => height(root) = 3

\* The tree LinkedBST([5, 4, 6, 3, 8, 19]) builds.
C7_Witness ==
    /\ op.name = "init"
    /\ op.src = Scenario
    /\ inorder(root) = <<3, 4, 5, 6, 8, 19>>
    /\ Data(root) = 5

\* C8: is_balanced() is true exactly when 2^(h+1) < 4 * (n+1)^2, that is
\* when h < 2 * log2(2 * (n+1)) - 1, for the height h and the n items held.
C8_IsBalancedLog2 ==
    LET n == Len(inorder(root))
    IN is_balanced(root) <=> Pow2(height(root) + 1) < 4 * (n + 1) * (n + 1)

\* C9: the count is the number of nodes and the root is absent exactly when
\* it is 0; add raises it by one, a successful remove lowers it by one, and
\* replace, rebalance and a failed remove leave it alone.
C9_CountIsNodes ==
    /\ size = Len(inorder(root))
    /\ (root = None <=> size = 0)

C9_CountStep ==
    /\ op'.name = "add" => size' = size + 1
    /\ (op'.name = "remove" /\ ret' = Return(<<op'.item>>)) => size' = size - 1
    /\ (op'.name = "remove" /\ ret' # Return(<<op'.item>>)) => size' = size
    /\ op'.name \in {"replace", "rebalance"} => size' = size
    /\ C9_CountIsNodes'

C9_Count == []C9_CountIsNodes /\ [][C9_CountStep]_vars

\* A replace has put a value out of order and the count is still the
\* number of nodes.
C9_Witness ==
    /\ op.name = "replace"
    /\ ret = Return(<<op.item>>)
    /\ ~NonDecreasing(inorder(root))
    /\ size = Len(inorder(root))
    /\ size >= 2

\* C10: find(x) returns x for every stored x and None for every other x.
C10_FindExact ==
    \A x \in AllValues :
        find(root, x) = IF x \in StoredValues(root) THEN <<x>> ELSE None

\* A rebuild has put a copy of a value into that value's left subtree, and
\* every stored value is found.
C10_Witness ==
    /\ op.name = "rebalance"
    /\ ~StrictBST(root)
    /\ size >= 3
    /\ \A x \in StoredValues(root) : find(root, x) = <<x>>

====
